---- MODULE Spec2Model ----
(***************************************************************************)
(* Model of the Employee Attrition dashboard (src/app.py), a Streamlit     *)
(* script.  The process keeps one memoized record table (st.cache_data);   *)
(* every user interaction re-runs the script top to bottom: load, sidebar  *)
(* filters, filter loop, derived views, pivot block.                       *)
(***************************************************************************)
EXTENDS Integers, Sequences, FiniteSets, TLC

VARIABLES
    file,             \* EA.csv on disk (the environment)
    cache,            \* the st.cache_data entry of load_data()
    reads,            \* completed pd.read_csv calls in this process
    load_failed,      \* pd.read_csv has raised in this process
    fresh,            \* the session has no widget state yet
    selected,         \* the six sidebar multiselect values
    row, col, agg,    \* the three pivot selectbox values
    touched,          \* the user has changed a pivot selectbox in this session
    pc,               \* position of the session's script run
    df,               \* the script's df
    filtered_df,      \* the script's filtered_df
    attrition_rate,   \* the script's attrition_rate
    metric,           \* the text of st.metric("Overall Attrition Rate (%)")
    ct,               \* the three normalized cross-tabulations
    pivot             \* what the pivot block rendered

vars == <<file, cache, reads, load_failed, fresh, selected, row, col, agg,
          touched, pc, df, filtered_df, attrition_rate, metric, ct, pivot>>

(***************************************************************************)
(* Bounds and data universe                                                *)
(***************************************************************************)
MaxRows == 3

Range(s) == {s[i] : i \in DOMAIN s}

FilterColumns ==
    <<"Department", "JobRole", "Gender", "Education", "MaritalStatus", "OverTime">>

FilterColSet == Range(FilterColumns)

CrosstabColumns == {"Department", "MaritalStatus", "OverTime"}

AggOptions == <<"count", "mean", "sum", "min", "max">>

\* Cell values a column of EA.csv may hold (two labels per filterable column).
ValuesOf(c) ==
    CASE c = "Department"    -> {"A", "B"}
      [] c = "JobRole"       -> {"Manager", "Analyst"}
      [] c = "Gender"        -> {"F", "M"}
      [] c = "Education"     -> {"E1", "E2"}
      [] c = "MaritalStatus" -> {"Single", "Married"}
      [] c = "OverTime"      -> {"OT", "NoOT"}
      [] c = "Attrition"     -> {"Yes", "yes", "No"}

AllValues == UNION {ValuesOf(c) : c \in FilterColSet \cup {"Attrition"}}

\* Header rows of the CSV files explored.
Headers ==
    { <<"Attrition">>,
      <<"Gender">>,
      <<"Department", "Attrition">>,
      <<"Attrition", "MaritalStatus">>,
      <<"OverTime", "Attrition">>,
      <<"JobRole", "Education">> }

RowsOf(h) ==
    {r \in [Range(h) -> AllValues] : \A c \in Range(h) : r[c] \in ValuesOf(c)}

TablesOf(h) ==
    {[columns |-> h, rows |-> rs] :
        rs \in UNION {[1..n -> RowsOf(h)] : n \in 0..MaxRows}}

\* A table whose rows a two-column selection can filter away entirely.
MixedTable ==
    [columns |-> <<"Department", "Gender", "Attrition">>,
     rows |-> << [Department |-> "A", Gender |-> "F", Attrition |-> "Yes"],
                 [Department |-> "B", Gender |-> "M", Attrition |-> "No"],
                 [Department |-> "A", Gender |-> "F", Attrition |-> "yes"] >>]

Tables == UNION {TablesOf(h) : h \in Headers} \cup {MixedTable}

EmptyTable == [columns |-> <<>>, rows |-> <<>>]

ColSet(t) == Range(t.columns)

(***************************************************************************)
(* Pure functions of the script                                            *)
(***************************************************************************)
\* Series.unique().tolist(): the distinct values in order of first appearance.
Unique(vals) ==
    LET F[i \in 0..Len(vals)] ==
            IF i = 0 THEN <<>>
            ELSE IF vals[i] \in Range(F[i-1]) THEN F[i-1]
                 ELSE Append(F[i-1], vals[i])
    IN F[Len(vals)]

safe_unique(t, c) ==
    IF c \in ColSet(t)
    THEN Unique([i \in 1..Len(t.rows) |-> t.rows[i][c]])
    ELSE <<>>

\* st.sidebar.multiselect(label, options, default=options)
multiselect(state, isFresh, options) ==
    IF isFresh THEN Range(options) ELSE state

\* Mutant: the truthiness test of the selection is dropped.
FilterStepNoTruthiness(fdf, c, sel) ==
    IF c \in ColSet(fdf)
    THEN [fdf EXCEPT !.rows = SelectSeq(fdf.rows, LAMBDA r : r[c] \in sel)]
    ELSE fdf

\* Mutant: isin is negated.
FilterStepNegated(fdf, c, sel) ==
    IF c \in ColSet(fdf) /\ sel # {}
    THEN [fdf EXCEPT !.rows = SelectSeq(fdf.rows, LAMBDA r : r[c] \notin sel)]
    ELSE fdf

\* The body of the filter loop.
FilterStep(fdf, c, sel) ==
    IF c \in ColSet(fdf) /\ sel # {}
    THEN [fdf EXCEPT !.rows = SelectSeq(fdf.rows, LAMBDA r : r[c] \in sel)]
    ELSE fdf

\* Mutant: the loop stops after the first filter it applies.
FilterLoopBreak(t, order, sel) ==
    LET F[i \in 0..Len(order)] ==
            IF i = 0 THEN t
            ELSE IF F[i-1] # t THEN F[i-1]
                 ELSE FilterStep(F[i-1], order[i], sel[order[i]])
    IN F[Len(order)]

\* filtered_df = df.copy(), then the loop over the zipped (col, selected).
FilterLoop(t, order, sel) ==
    LET F[i \in 0..Len(order)] ==
            IF i = 0 THEN t
            ELSE FilterStep(F[i-1], order[i], sel[order[i]])
    IN F[Len(order)]

\* str.lower() on the Attrition labels.
Lower(s) ==
    CASE s \in {"Yes", "yes", "YES", "yES", "yEs", "yeS", "YEs", "YeS"} -> "yes"
      [] s \in {"No", "no", "NO", "nO"} -> "no"
      [] OTHER -> s

\* (series == 'yes').sum() after str.lower()
CountYes(rows) ==
    Cardinality({i \in DOMAIN rows : Lower(rows[i]["Attrition"]) = "yes"})

\* The number of rows of group x, and of group x with Attrition label a.
CountGroup(rows, g, x) == Cardinality({i \in DOMAIN rows : rows[i][g] = x})

CountPair(rows, g, x, a) ==
    Cardinality({i \in DOMAIN rows : rows[i][g] = x /\ rows[i]["Attrition"] = a})

NaN == [nan |-> TRUE, num |-> 0, den |-> 1]

\* Series.mean() of a boolean series: NaN when empty.
Mean(k, n) == IF n = 0 THEN NaN ELSE [nan |-> FALSE, num |-> k, den |-> n]

Times(m, x) == IF x.nan THEN x ELSE [x EXCEPT !.num = m * x.num]

\* Mutant: the labels are compared without str.lower().
AttritionRateNoLower(fdf) ==
    IF "Attrition" \in ColSet(fdf)
    THEN Times(100, Mean(Cardinality({i \in DOMAIN fdf.rows :
                                          fdf.rows[i]["Attrition"] = "yes"}),
                         Len(fdf.rows)))
    ELSE NaN

\* Mutant: an empty frame yields 0 instead of NaN.
AttritionRateZeroOnEmpty(fdf) ==
    IF "Attrition" \in ColSet(fdf)
    THEN IF Len(fdf.rows) = 0 THEN [nan |-> FALSE, num |-> 0, den |-> 1]
         ELSE Times(100, Mean(CountYes(fdf.rows), Len(fdf.rows)))
    ELSE NaN

AttritionRate(fdf) ==
    IF "Attrition" \in ColSet(fdf)
    THEN Times(100, Mean(CountYes(fdf.rows), Len(fdf.rows)))
    ELSE NaN

\* f"{attrition_rate:.2f}" if not np.isnan(attrition_rate) else "N/A";
\* the number is kept in hundredths of a percent.
Metric(rate) ==
    IF rate.nan THEN [shown |-> TRUE, na |-> TRUE, hundredths |-> 0]
    ELSE [shown |-> TRUE, na |-> FALSE,
          hundredths |-> (2 * 100 * rate.num + rate.den) \div (2 * rate.den)]

NoCrosstab == [shown |-> FALSE, cells |-> <<>>]

\* Mutant: normalize=True (over the whole table) instead of normalize='index'.
CrosstabNormalizeAll(fdf, g) ==
    IF g \in ColSet(fdf) /\ "Attrition" \in ColSet(fdf)
    THEN [shown |-> TRUE,
          cells |->
            [x \in {fdf.rows[i][g] : i \in DOMAIN fdf.rows} |->
              [a \in {fdf.rows[i]["Attrition"] : i \in DOMAIN fdf.rows} |->
                [num |-> CountPair(fdf.rows, g, x, a),
                 den |-> Len(fdf.rows)]]]]
    ELSE NoCrosstab

\* pd.crosstab(filtered_df[g], filtered_df['Attrition'], normalize='index'),
\* guarded by the presence of both columns.
Crosstab(fdf, g) ==
    IF g \in ColSet(fdf) /\ "Attrition" \in ColSet(fdf)
    THEN [shown |-> TRUE,
          cells |->
            [x \in {fdf.rows[i][g] : i \in DOMAIN fdf.rows} |->
              [a \in {fdf.rows[i]["Attrition"] : i \in DOMAIN fdf.rows} |->
                [num |-> CountPair(fdf.rows, g, x, a),
                 den |-> CountGroup(fdf.rows, g, x)]]]]
    ELSE NoCrosstab

(***************************************************************************)
(* The process: the memoized load, the session's widgets, the script run   *)
(***************************************************************************)
Missing == [kind |-> "missing", table |-> EmptyTable]

Malformed == [kind |-> "malformed", table |-> EmptyTable]

Csv(t) == [kind |-> "csv", table |-> t]

NoCache == [loaded |-> FALSE, table |-> EmptyTable]

\* Two data files used for the runs that follow the whole session life cycle.
StaffTable ==
    [columns |-> <<"Department", "Attrition">>,
     rows |-> << [Department |-> "A", Attrition |-> "Yes"],
                 [Department |-> "A", Attrition |-> "No"],
                 [Department |-> "B", Attrition |-> "No"] >>]

GenderTable ==
    [columns |-> <<"Gender">>,
     rows |-> << [Gender |-> "F"], [Gender |-> "M"] >>]

SampleFiles == {Missing, Malformed, Csv(StaffTable), Csv(GenderTable)}

NoSelection == [c \in FilterColSet |-> {}]

NoChoice == ""

NoMetric == [shown |-> FALSE, na |-> FALSE, hundredths |-> 0]

NoViews == [g \in CrosstabColumns |-> NoCrosstab]

\* Mutant: load_data without the st.cache_data decorator.
LoadDataUncached ==
    IF file.kind = "csv"
    THEN [cache |-> [loaded |-> TRUE, table |-> file.table],
          reads |-> reads + 1, how |-> "read"]
    ELSE [cache |-> cache, reads |-> reads, how |-> "error"]

\* Mutant: a failed read is swallowed and an empty frame is memoized.
LoadDataSwallow ==
    IF cache.loaded
    THEN [cache |-> cache, reads |-> reads, how |-> "hit"]
    ELSE IF file.kind = "csv"
         THEN [cache |-> [loaded |-> TRUE, table |-> file.table],
               reads |-> reads + 1, how |-> "read"]
         ELSE [cache |-> [loaded |-> TRUE, table |-> EmptyTable],
               reads |-> reads, how |-> "read"]

\* @st.cache_data load_data(): a memoized pd.read_csv("EA.csv"); an exception
\* of read_csv is not memoized.
LoadData ==
    IF cache.loaded
    THEN [cache |-> cache, reads |-> reads, how |-> "hit"]
    ELSE IF file.kind = "csv"
         THEN [cache |-> [loaded |-> TRUE, table |-> file.table],
               reads |-> reads + 1, how |-> "read"]
         ELSE [cache |-> cache, reads |-> reads, how |-> "error"]

\* st.selectbox(label, options, key=...): the first option until one is chosen.
selectbox(state, isFresh, options) ==
    IF isFresh
    THEN IF Len(options) = 0 THEN NoChoice ELSE options[1]
    ELSE state

Truthy(x) == x # NoChoice

\* Mutant: the pivot call is not wrapped in try/except.
PivotTryUnguarded(r, c, raised) ==
    IF Truthy(r) /\ Truthy(c)
    THEN IF raised THEN [pivot |-> "none", pc |-> "failed"]
         ELSE [pivot |-> "table", pc |-> "done"]
    ELSE [pivot |-> "none", pc |-> "done"]

\* if row and col: try: pd.pivot_table(...); st.dataframe(pt)
\*                 except Exception as e: st.warning(...)
\* raised: whether pd.pivot_table raised.
PivotTry(r, c, raised) ==
    IF Truthy(r) /\ Truthy(c)
    THEN IF raised THEN [pivot |-> "warning", pc |-> "done"]
         ELSE [pivot |-> "table", pc |-> "done"]
    ELSE [pivot |-> "none", pc |-> "done"]

TypeOK ==
    /\ file.kind \in {"missing", "malformed", "csv"}
    /\ cache.loaded \in BOOLEAN
    /\ reads \in Nat /\ load_failed \in BOOLEAN
    /\ fresh \in BOOLEAN /\ touched \in BOOLEAN
    /\ pc \in {"none", "pivot", "done", "failed"}
    /\ pivot \in {"none", "table", "warning"}
    /\ agg \in Range(AggOptions) \cup {NoChoice}

SessionInit ==
    /\ cache = NoCache /\ reads = 0 /\ load_failed = FALSE
    /\ fresh = TRUE /\ selected = NoSelection
    /\ row = NoChoice /\ col = NoChoice /\ agg = NoChoice /\ touched = FALSE
    /\ pc = "none"
    /\ df = EmptyTable /\ filtered_df = EmptyTable
    /\ attrition_rate = NaN /\ metric = NoMetric /\ ct = NoViews
    /\ pivot = "none"

Init == file \in SampleFiles /\ SessionInit

PipeInit == file \in {Csv(t) : t \in Tables} /\ SessionInit

\* The script from its first line to the summary statistics (lines 8-174),
\* run with the sidebar widget state sel.
RunScript(isFresh, sel) ==
    LET res == LoadData IN
    /\ cache' = res.cache /\ reads' = res.reads
    /\ load_failed' = (load_failed \/ res.how = "error")
    /\ fresh' = isFresh
    /\ pivot' = "none"
    /\ IF res.how = "error"
       THEN /\ pc' = "failed"
            /\ selected' = sel
            /\ df' = EmptyTable /\ filtered_df' = EmptyTable
            /\ attrition_rate' = NaN /\ metric' = NoMetric /\ ct' = NoViews
       ELSE LET d == res.cache.table
                s == [c \in FilterColSet |->
                         multiselect(sel[c], isFresh, safe_unique(d, c))]
                f == FilterLoop(d, FilterColumns, s)
            IN /\ pc' = "pivot"
               /\ selected' = s
               /\ df' = d /\ filtered_df' = f
               /\ attrition_rate' = AttritionRate(f)
               /\ metric' = Metric(AttritionRate(f))
               /\ ct' = [g \in CrosstabColumns |-> Crosstab(f, g)]

\* The pivot block and the caption that ends the script (lines 176-188).
PivotBlock ==
    /\ pc = "pivot"
    /\ LET cols == filtered_df.columns
           r == selectbox(row, fresh, cols)
           c == selectbox(col, fresh, cols)
           a == selectbox(agg, fresh, AggOptions)
       IN /\ row' = r /\ col' = c /\ agg' = a
          /\ \E raised \in BOOLEAN :
                LET out == PivotTry(r, c, raised)
                IN pivot' = out.pivot /\ pc' = out.pc
    /\ fresh' = FALSE
    /\ UNCHANGED <<file, cache, reads, load_failed, selected, touched, df,
                   filtered_df, attrition_rate, metric, ct>>

\* A browser connects: a session with no widget state runs the script.
NewSession ==
    /\ pc \in {"none", "done", "failed"}
    /\ RunScript(TRUE, NoSelection)
    /\ row' = NoChoice /\ col' = NoChoice /\ agg' = NoChoice
    /\ touched' = FALSE
    /\ UNCHANGED file

\* The user re-runs the script without changing a widget.
Rerun ==
    /\ pc \in {"done", "failed"}
    /\ RunScript(fresh, selected)
    /\ UNCHANGED <<file, row, col, agg, touched>>

\* The user changes one sidebar multiselect; the script re-runs.
SetFilter(c, S) ==
    /\ pc = "done"
    /\ S \subseteq Range(safe_unique(df, c))
    /\ S # selected[c]
    /\ RunScript(FALSE, [selected EXCEPT ![c] = S])
    /\ UNCHANGED <<file, row, col, agg, touched>>

\* The user changes one pivot selectbox; the script re-runs.
SetPivotRow(x) ==
    /\ pc = "done"
    /\ x \in Range(filtered_df.columns) /\ x # row
    /\ row' = x /\ touched' = TRUE
    /\ RunScript(FALSE, selected)
    /\ UNCHANGED <<file, col, agg>>

SetPivotCol(x) ==
    /\ pc = "done"
    /\ x \in Range(filtered_df.columns) /\ x # col
    /\ col' = x /\ touched' = TRUE
    /\ RunScript(FALSE, selected)
    /\ UNCHANGED <<file, row, agg>>

SetAgg(x) ==
    /\ pc = "done"
    /\ x \in Range(AggOptions) /\ x # agg
    /\ agg' = x /\ touched' = TRUE
    /\ RunScript(FALSE, selected)
    /\ UNCHANGED <<file, row, col>>

\* The environment replaces, removes or restores EA.csv between script runs.
WriteFile(f) ==
    /\ pc # "pivot"
    /\ f # file
    /\ file' = f
    /\ UNCHANGED <<cache, reads, load_failed, fresh, selected, row, col, agg,
                   touched, pc, df, filtered_df, attrition_rate, metric, ct,
                   pivot>>

ChangeFilter == \E c \in FilterColSet : \E S \in SUBSET ValuesOf(c) : SetFilter(c, S)

ChangePivot ==
    \E x \in FilterColSet \cup {"Attrition"} \cup Range(AggOptions) :
        SetPivotRow(x) \/ SetPivotCol(x) \/ SetAgg(x)

ChangeFile == \E f \in SampleFiles : WriteFile(f)

Next == NewSession \/ Rerun \/ ChangeFilter \/ ChangePivot \/ PivotBlock \/ ChangeFile

Spec == Init /\ [][Next]_vars

\* The filter pipeline alone, over every table of the data universe.
PipeNext == NewSession \/ Rerun \/ ChangeFilter \/ PivotBlock

PipeSpec == PipeInit /\ [][PipeNext]_vars

(***************************************************************************)
(* Properties of the filter pipeline (checked under PipeSpec)              *)
(***************************************************************************)
\* The script has got past the derived views in the current pass.
Rendered == pc \in {"pivot", "done"}

\* Row r satisfies every filter that column presence and a non-empty
\* selection make effective.
Passes(t, sel, r) ==
    \A c \in FilterColSet : (c \in ColSet(t) /\ sel[c] # {}) => r[c] \in sel[c]

\* C1: in every render pass the filtered table has the record table's columns
\* and exactly those of its rows, in their original order, that satisfy
\* row[c] \in selection[c] for every filterable column present in the table
\* and constrained by the selection; it is a function of the record table and
\* the current selection alone.
C1_FilteredIsConjunction ==
    Rendered =>
        /\ df = cache.table
        /\ filtered_df.columns = df.columns
        /\ filtered_df.rows =
               SelectSeq(df.rows, LAMBDA r : Passes(df, selected, r))

C1_Witness ==
    /\ pc = "done" /\ ~fresh
    /\ Len(df.rows) = 3
    /\ df.rows[1] # df.rows[3]
    /\ filtered_df.rows = <<df.rows[1], df.rows[3]>>

\* C2: when every filterable column's selection is empty or is the full set of
\* values occurring in that column, the filtered table equals the record table:
\* same columns, same rows, same order.
C2_EmptyOrFullIsNoOp ==
    (Rendered /\ \A c \in FilterColSet :
                    selected[c] = {} \/ selected[c] = Range(safe_unique(df, c)))
        => filtered_df = df

C2_Witness ==
    /\ pc = "done"
    /\ df.columns = <<"JobRole", "Education">>
    /\ Len(df.rows) = 3
    /\ selected["JobRole"] = {}
    /\ selected["Education"] = {"E1", "E2"}
    /\ filtered_df = df

Swap(order, i, j) == [order EXCEPT ![i] = order[j], ![j] = order[i]]

\* C3: the filters commute: applying the filters of any two columns in either
\* order gives the same table, and the filter loop run over the column list
\* with any two positions exchanged gives the filtered table of the pass.
C3_FiltersCommute ==
    Rendered =>
        /\ \A a, b \in FilterColSet :
              FilterStep(FilterStep(df, a, selected[a]), b, selected[b])
                = FilterStep(FilterStep(df, b, selected[b]), a, selected[a])
        /\ \A i, j \in DOMAIN FilterColumns :
              FilterLoop(df, Swap(FilterColumns, i, j), selected) = filtered_df

C3_Witness ==
    /\ pc = "done"
    /\ \E a, b \in FilterColSet :
          /\ a # b
          /\ FilterStep(df, a, selected[a]) # df
          /\ FilterStep(df, b, selected[b]) # df
          /\ FilterStep(df, a, selected[a]) # FilterStep(df, b, selected[b])
          /\ filtered_df # FilterStep(df, a, selected[a])
          /\ filtered_df # FilterStep(df, b, selected[b])
          /\ Len(filtered_df.rows) > 0

\* C8: the attrition metric reads N/A exactly when the Attrition column is
\* absent or the filtered table has no rows; otherwise it is a number.
C8_NotAvailableIff ==
    Rendered =>
        /\ metric.shown
        /\ metric.na <=>
              ("Attrition" \notin ColSet(df) \/ Len(filtered_df.rows) = 0)
        /\ metric.na <=> attrition_rate.nan

C8_Witness ==
    /\ pc = "done"
    /\ "Attrition" \in ColSet(df)
    /\ Len(df.rows) > 0
    /\ Len(filtered_df.rows) = 0
    /\ metric.na

\* Labels that read "yes" whatever their letter case.
YesLabels == {"Yes", "yes", "YES"}

YesRows == {i \in DOMAIN filtered_df.rows :
               filtered_df.rows[i]["Attrition"] \in YesLabels}

\* C9: for a non-empty filtered table with the Attrition column the rate is
\* 100 * (rows whose label is "yes" in any letter case) / (rows): 100.00 when
\* all rows are, 0.00 when none is, and 50.00 for the three-row table
\* (A,Yes),(A,No),(B,No) filtered to Department = {A}.
C9_RateIsYesShare ==
    (Rendered /\ "Attrition" \in ColSet(filtered_df) /\ Len(filtered_df.rows) > 0)
        => LET n == Len(filtered_df.rows)
               k == Cardinality(YesRows)
           IN /\ ~attrition_rate.nan
              /\ attrition_rate.num * n = 100 * k * attrition_rate.den
              /\ k = n => metric.hundredths = 10000
              /\ k = 0 => metric.hundredths = 0
              /\ (df = StaffTable /\ selected["Department"] = {"A"})
                    => (n = 2 /\ metric.hundredths = 5000)

C9_Witness ==
    /\ pc = "done"
    /\ df = StaffTable
    /\ selected["Department"] = {"A"}
    /\ Len(filtered_df.rows) = 2
    /\ metric = [shown |-> TRUE, na |-> FALSE, hundredths |-> 5000]

RECURSIVE SumNum(_, _)
SumNum(cellrow, S) ==
    IF S = {} THEN 0
    ELSE LET a == CHOOSE x \in S : TRUE
         IN cellrow[a].num + SumNum(cellrow, S \ {a})

\* C10: each cross-tabulation (Department, MaritalStatus, OverTime against
\* Attrition) is omitted exactly when one of its two columns is absent;
\* otherwise it has one row per grouping value occurring in the filtered
\* table, each cell is count(group, label) / count(group), and the cells of
\* a row sum to 1.
C10_CrosstabRowsSumToOne ==
    Rendered =>
        \A g \in CrosstabColumns :
            /\ ct[g].shown <=> (g \in ColSet(df) /\ "Attrition" \in ColSet(df))
            /\ ct[g].shown =>
                 LET rows == filtered_df.rows
                     cells == ct[g].cells
                 IN /\ DOMAIN cells = {rows[i][g] : i \in DOMAIN rows}
                    /\ \A x \in DOMAIN cells :
                         LET size == Cardinality({i \in DOMAIN rows : rows[i][g] = x})
                         IN /\ size > 0
                            /\ \A a \in DOMAIN cells[x] :
                                 /\ cells[x][a].den = size
                                 /\ cells[x][a].num =
                                      Cardinality({i \in DOMAIN rows :
                                         rows[i][g] = x /\ rows[i]["Attrition"] = a})
                            /\ SumNum(cells[x], DOMAIN cells[x]) = size

C10_Witness ==
    /\ pc = "done"
    /\ df = StaffTable
    /\ filtered_df = df
    /\ ct["Department"].shown
    /\ ~ct["OverTime"].shown
    /\ ct["Department"].cells["A"]["Yes"] = [num |-> 1, den |-> 2]
    /\ ct["Department"].cells["B"]["Yes"] = [num |-> 0, den |-> 1]

(***************************************************************************)
(* Properties of the process and session life cycle (checked under Spec)   *)
(***************************************************************************)
\* C4: no pivot table is computed before the user has chosen the pivot
\* controls; in particular none in the first render pass of a session.
C4_NoPivotBeforeChoice == ~touched => pivot = "none"

\* C5: whatever pd.pivot_table does, the pivot block ends the pass normally:
\* an exception becomes a warning, and the record table, the filter selection,
\* the filtered table and the other derived views are left as they were; the
\* pass that follows a warning reaches the pivot block again.
C5_PivotErrorIsLocal ==
    [][ /\ pc = "pivot" =>
             /\ pc' = "done"
             /\ pivot' \in {"table", "warning"}
             /\ UNCHANGED <<file, cache, reads, df, selected, filtered_df,
                            attrition_rate, metric, ct>>
        /\ (pc = "done" /\ pivot = "warning" /\ pc' # "done") =>
             (pc' = "pivot" /\ cache' = cache /\ df' = df)
      ]_vars

C5_Witness ==
    /\ pc = "done"
    /\ pivot = "warning"
    /\ df = StaffTable
    /\ row = "Department" /\ col = "Attrition" /\ agg = "mean"
    /\ filtered_df = FilterLoop(df, FilterColumns, selected)
    /\ metric = Metric(AttritionRate(filtered_df))

\* C6: pd.read_csv completes at most once per process, exactly once as soon as
\* a table is memoized; every pass that renders works on the memoized table;
\* and once memoized the record table never changes, whatever happens to the
\* file and whichever session runs.
C6_LoadedOnceAndImmutable ==
    [][ /\ reads' <= 1
        /\ cache'.loaded <=> reads' = 1
        /\ pc' \in {"pivot", "done"} => (cache'.loaded /\ df' = cache'.table)
        /\ cache.loaded => (cache' = cache /\ reads' = reads)
      ]_vars

C6_Witness ==
    /\ pc = "pivot"
    /\ fresh
    /\ file # Csv(StaffTable)
    /\ reads = 1
    /\ cache = [loaded |-> TRUE, table |-> StaffTable]
    /\ df = StaffTable
    /\ selected["Department"] = {"A", "B"}

\* No view of the pass has been produced.
Blank ==
    /\ df = EmptyTable /\ filtered_df = EmptyTable
    /\ attrition_rate = NaN /\ metric = NoMetric /\ ct = NoViews
    /\ pivot = "none"

\* C7 as stated: once a load has failed, no later render pass of the process
\* loads the table.
C7_FailedLoadIsFatal == load_failed => ~cache.loaded

\* C7 as amended: a load from a missing or malformed file aborts that pass
\* with nothing produced and nothing memoized; the failure is not remembered:
\* the pass that follows re-reads the file and loads the table if the file has
\* become readable.
C7_FailedLoadAbortsPassOnly ==
    [][ /\ (~cache.loaded /\ file.kind # "csv") =>
             (~cache'.loaded /\ pc' \in {pc, "failed"})
        /\ pc' = "failed" => (load_failed' /\ ~cache'.loaded /\ Blank')
        /\ (pc = "failed" /\ pc' # "failed") =>
             /\ file.kind = "csv"
             /\ pc' = "pivot"
             /\ cache' = [loaded |-> TRUE, table |-> file.table]
        /\ (pc = "failed" /\ file.kind = "csv" /\ file' = file) => pc' = "pivot"
      ]_vars

C7_Witness ==
    /\ load_failed
    /\ pc = "done"
    /\ cache.loaded
    /\ reads = 1
    /\ Len(filtered_df.rows) > 0

====
